---- MODULE Spec2Model ----
(***************************************************************************)
(* Model of the data quality engine of building-ETL-pipeline:              *)
(*   src/src/data_quality/checks.py        the six check functions         *)
(*   src/src/data_quality/expectations.py  DataQualityChecker, SuiteResult *)
(*   src/src/main.py                       run_etl_pipeline                *)
(*   src/src/transform/transformers.py     clean_user_events               *)
(*   src/scripts/data_quality_check.py     the standalone script           *)
(* The warehouse is a store of tables; a table is a sequence of rows and a *)
(* row a record of the columns k, v and ts.  SQL NULL and Python None are  *)
(* the value None.  Text is modelled as strings, Python floats as IEEE-754 *)
(* binary64 values with an explicit 53-bit significand.                    *)
(***************************************************************************)
EXTENDS Integers, Sequences, FiniteSets, TLC

VARIABLES store, now, checks, config_calls, pc, idx, results, calls, suite,
          configured, history, ret, phase, exit_code, threads, issues_found,
          events_raw, events_clean

\* the variables of concurrent runs, of the standalone script and of the
\* transformer
apart == <<threads, issues_found, events_raw, events_clean>>

vars == <<store, now, checks, config_calls, pc, idx, results, calls, suite,
          configured, history, ret, phase, exit_code, apart>>

\* Python None / SQL NULL (all other values of the model are naturals)
None == -1

(***************************************************************************)
(* Text: str(int), f"{int}" for the small naturals of the model            *)
(***************************************************************************)
Digit == <<"0", "1", "2", "3", "4", "5", "6", "7", "8", "9">>

RECURSIVE IntStr(_)
IntStr(n) ==
    IF n < 10 THEN Digit[n + 1] ELSE IntStr(n \div 10) \o Digit[(n % 10) + 1]

\* str(x) of an Optional value
OptStr(x) == IF x = None THEN "None" ELSE IntStr(x)

\* str(list of str): ['k', 'v']
RECURSIVE ListItems(_)
ListItems(cols) ==
    IF cols = <<>> THEN ""
    ELSE IF Len(cols) = 1 THEN "'" \o cols[1] \o "'"
    ELSE "'" \o cols[1] \o "', " \o ListItems(Tail(cols))

ListStr(cols) == "[" \o ListItems(cols) \o "]"

(***************************************************************************)
(* Python float: IEEE-754 binary64, round to nearest, ties to even.        *)
(* A positive float is [m |-> its 53 significand bits, most significant    *)
(* first and leading bit 1, e |-> the exponent of the leading bit]; 0.0 is *)
(* the float with no bits.  Only the operations of checks.py are modelled. *)
(***************************************************************************)
MantBits == 53

FZero == [m |-> <<>>, e |-> 0]

RECURSIVE Pow2(_)
Pow2(k) == IF k = 0 THEN 1 ELSE 2 * Pow2(k - 1)

RECURSIVE IntToBits(_)
IntToBits(n) == IF n = 0 THEN <<>> ELSE IntToBits(n \div 2) \o <<n % 2>>

RECURSIVE BitsToInt(_)
BitsToInt(b) ==
    IF b = <<>> THEN 0 ELSE 2 * BitsToInt(SubSeq(b, 1, Len(b) - 1)) + b[Len(b)]

Zeros(k) == [i \in 1..k |-> 0]

\* n as exactly w bits (n < 2^w)
PadBits(n, w) == LET b == IntToBits(n) IN Zeros(w - Len(b)) \o b

AnyOne(b) == \E i \in 1..Len(b) : b[i] = 1

\* b + 1 on a bit string; one bit longer when b is all ones
IncBits(b) ==
    LET zs == {i \in 1..Len(b) : b[i] = 0}
    IN  IF zs = {} THEN <<1>> \o Zeros(Len(b))
        ELSE LET p == CHOOSE i \in zs : \A j \in zs : j <= i
             IN  [i \in 1..Len(b) |-> IF i < p THEN b[i] ELSE IF i = p THEN 1 ELSE 0]

\* bits with the first keep bits kept and the rest rounded half-to-even;
\* sticky says that non-zero bits follow beyond those given
RoundBits(bits, keep, sticky) ==
    LET head == SubSeq(bits, 1, keep)
        rest == SubSeq(bits, keep + 1, Len(bits))
        guard == IF rest = <<>> THEN 0 ELSE rest[1]
        below == sticky \/ AnyOne(Tail(IF rest = <<>> THEN <<0>> ELSE rest))
        last == IF head = <<>> THEN 0 ELSE head[Len(head)]
        up == guard = 1 /\ (below \/ last = 1)
    IN  IF up THEN IncBits(head) ELSE head

\* the float nearest to the value whose bits (leading bit 1, at least
\* MantBits of them) start at exponent e
MkFloat(bits, e, sticky) ==
    LET r == RoundBits(bits, MantBits, sticky)
    IN  IF Len(r) > MantBits
        THEN [m |-> SubSeq(r, 1, MantBits), e |-> e + 1]
        ELSE [m |-> r, e |-> e]

\* float(n) for a small natural n (exact)
FromInt(n) ==
    IF n = 0 THEN FZero
    ELSE LET b == IntToBits(n)
         IN  [m |-> b \o Zeros(MantBits - Len(b)), e |-> Len(b) - 1]

\* 2^i mod m, by squaring
RECURSIVE PowMod2(_, _)
PowMod2(i, m) ==
    IF i = 0 THEN 1 % m
    ELSE LET h == PowMod2(i \div 2, m)
         IN  (h * h * (IF i % 2 = 1 THEN 2 ELSE 1)) % m

\* the remainder left after k more steps of the long division by den
DivRem(r, den, k) == (r * PowMod2(k, den)) % den

\* the k quotient bits that follow remainder r (< den) in the long division
DivBits(r, den, k) ==
    [i \in 1..k |-> (2 * DivRem(r, den, i - 1)) \div den]

\* the largest s with d * 2^s <= n  (n >= d > 0)
RECURSIVE ShiftUp(_, _)
ShiftUp(n, d) == IF 2 * d <= n THEN 1 + ShiftUp(n, 2 * d) ELSE 0

\* the smallest s with n * 2^s >= d  (0 < n < d)
RECURSIVE ShiftDown(_, _)
ShiftDown(n, d) == IF n >= d THEN 0 ELSE 1 + ShiftDown(2 * n, d)

\* n / d of two Python ints (true division, correctly rounded), n >= 0 < d
FloatDiv(n, d) ==
    IF n = 0 THEN FZero
    ELSE LET e == IF n >= d THEN ShiftUp(n, d) ELSE 0 - ShiftDown(n, d)
             num == IF e < 0 THEN n * Pow2(0 - e) ELSE n
             den == IF e > 0 THEN d * Pow2(e) ELSE d
         IN  MkFloat(<<1>> \o DivBits(num - den, den, MantBits), e,
                     DivRem(num - den, den, MantBits) # 0)

\* bits * k + carry on a bit string, a byte of the bits at a time
RECURSIVE MulBits(_, _, _)
MulBits(b, k, carry) ==
    IF b = <<>> THEN IntToBits(carry)
    ELSE LET w == IF Len(b) < 8 THEN Len(b) ELSE 8
             v == BitsToInt(SubSeq(b, Len(b) - w + 1, Len(b))) * k + carry
         IN  MulBits(SubSeq(b, 1, Len(b) - w), k, v \div Pow2(w))
                 \o PadBits(v % Pow2(w), w)

\* x * k for a float x and a small int k >= 1 (k converts exactly)
FloatMulInt(x, k) ==
    IF x.m = <<>> THEN FZero
    ELSE LET p == MulBits(x.m, k, 0)
         IN  MkFloat(p, x.e + (Len(p) - MantBits), FALSE)

\* a <= b on bit strings of one length
BitsLE(a, b) ==
    LET ds == {i \in 1..Len(a) : a[i] # b[i]}
    IN  IF ds = {} THEN TRUE
        ELSE LET p == CHOOSE i \in ds : \A j \in ds : i <= j
             IN  a[p] < b[p]

\* x <= y on non-negative floats
FloatLE(x, y) ==
    IF x.m = <<>> THEN TRUE
    ELSE IF y.m = <<>> THEN FALSE
    ELSE x.e < y.e \/ (x.e = y.e /\ BitsLE(x.m, y.m))

\* round(x * 10^digits) of the exact value of x, ties to even: the digits
\* that f"{x:.1f}" and f"{x:.2f}" print
Scaled(x, scale) ==
    IF x.m = <<>> THEN 0
    ELSE LET p == MulBits(x.m, scale, 0)
             frac == (MantBits - 1) - x.e
             padded == Zeros(frac + 1 - Len(p)) \o p
             r == RoundBits(padded, Len(padded) - frac, FALSE)
         IN  BitsToInt(r)

\* f"{x:.2f}"
Fmt2f(x) ==
    LET h == Scaled(x, 100)
    IN  IntStr(h \div 100) \o "." \o IntStr((h % 100) \div 10) \o IntStr(h % 10)

\* f"{x:.1f}"
Fmt1f(x) ==
    LET h == Scaled(x, 10)
    IN  IntStr(h \div 10) \o "." \o IntStr(h % 10)

(***************************************************************************)
(* The store: what the SQL of checks.py reads.  store maps a table name to *)
(* its rows; a statement naming an unknown table or column, or malformed,  *)
(* raises ProgrammingError; engine.connect() raises OperationalError when  *)
(* the store cannot be reached (the fault of the call).                    *)
(***************************************************************************)
Columns == {"k", "v", "ts"}

NoFault == ""

ConnectionLost == "connection refused"

\* the exception classes the store raises; both derive from Exception
ExceptionClasses == {"OperationalError", "ProgrammingError"}

RECURSIVE IntItems(_)
IntItems(xs) ==
    IF xs = <<>> THEN ""
    ELSE IF Len(xs) = 1 THEN IntStr(xs[1])
    ELSE IntStr(xs[1]) \o ", " \o IntItems(Tail(xs))

\* str(list of int): [1, 2]
IntListStr(xs) == "[" \o IntItems(xs) \o "]"

\* a Python number: an int, or a float of integral value; str() tells them apart
Num(v, isfloat) == [v |-> v, isfloat |-> isfloat]

NumStr(x) == IF x.isfloat THEN IntStr(x.v) \o ".0" ELSE IntStr(x.v)

\* the error text of the statement, "" when it executes
SqlError(tables, table_names, columns, wellformed) ==
    IF \E t \in table_names : t \notin DOMAIN tables
    THEN "relation does not exist"
    ELSE IF ~wellformed THEN "syntax error"
    ELSE IF \E c \in columns : c \notin Columns THEN "column does not exist"
    ELSE ""

\* a value that is not None and not 0
Truthy(x) == x # None /\ x # 0

Range(f) == {f[i] : i \in DOMAIN f}

Min2(a, b) == IF a < b THEN a ELSE b

\* SELECT COUNT(*) FROM table
SelectCount(rows) == Len(rows)

\* SUM(CASE WHEN c1 IS NULL THEN 1 ELSE 0 END + ... ) over the rows; NULL
\* (None) over no rows
RECURSIVE SumNullCells(_, _)
SumNullCells(rows, columns) ==
    IF rows = <<>> THEN 0
    ELSE Cardinality({i \in 1..Len(columns) : rows[1][columns[i]] = None})
         + SumNullCells(Tail(rows), columns)

SelectNullCount(rows, columns) ==
    IF rows = <<>> THEN None ELSE SumNullCells(rows, columns)

\* the value of the column tuple in a row
KeyOf(row, columns) == [i \in 1..Len(columns) |-> row[columns[i]]]

GroupSize(rows, columns, key) ==
    Cardinality({i \in 1..Len(rows) : KeyOf(rows[i], columns) = key})

\* a grouping in which a key with a NULL equals no other key
HavingDuplicatesNoNull(rows, columns) ==
    {key \in {KeyOf(rows[i], columns) : i \in 1..Len(rows)} :
        /\ None \notin Range(key)
        /\ GroupSize(rows, columns, key) > 1}

\* GROUP BY columns HAVING COUNT(*) > 1: the keys of the groups (NULLs group
\* together)
HavingDuplicates(rows, columns) ==
    {key \in {KeyOf(rows[i], columns) : i \in 1..Len(rows)} :
        GroupSize(rows, columns, key) > 1}

DuplicatesLimit == 10

\* the number of rows fetched under LIMIT 10
SelectDuplicates(rows, columns) ==
    Min2(Cardinality(HavingDuplicates(rows, columns)), DuplicatesLimit)

\* a count of the orphaned rows instead of their distinct values
SelectOrphansRows(rows, column, ref_rows, reference_column) ==
    Cardinality({j \in 1..Len(rows) :
        /\ rows[j][column] # None
        /\ ~\E h \in 1..Len(ref_rows) :
              ref_rows[h][reference_column] = rows[j][column]})

\* COUNT(DISTINCT t.column) ... LEFT JOIN ... WHERE r.ref IS NULL AND t.column
\* IS NOT NULL
SelectOrphans(rows, column, ref_rows, reference_column) ==
    Cardinality({rows[i][column] : i \in
        {j \in 1..Len(rows) :
            /\ rows[j][column] # None
            /\ ~\E h \in 1..Len(ref_rows) :
                  /\ ref_rows[h][reference_column] # None
                  /\ ref_rows[h][reference_column] = rows[j][column]}})

\* COUNT(*) FILTER (WHERE column NOT IN (...)) ... WHERE column IS NOT NULL
SelectNotInSet(rows, column, allowed_values) ==
    Cardinality({i \in 1..Len(rows) :
        /\ rows[i][column] # None
        /\ rows[i][column] \notin Range(allowed_values)})

\* conditions built from the bounds that are true: a bound of 0 is dropped
SelectOutOfRangeTruthy(rows, column, min_value, max_value) ==
    Cardinality({i \in 1..Len(rows) :
        /\ rows[i][column] # None
        /\ \/ Truthy(min_value) /\ rows[i][column] < min_value
           \/ Truthy(max_value) /\ rows[i][column] > max_value})

\* COUNT(*) ... WHERE column < min OR column > max (a comparison with NULL
\* is not true)
SelectOutOfRange(rows, column, min_value, max_value) ==
    Cardinality({i \in 1..Len(rows) :
        /\ rows[i][column] # None
        /\ \/ min_value # None /\ rows[i][column] < min_value
           \/ max_value # None /\ rows[i][column] > max_value})

\* SELECT MAX(column): None over no non-null value
SelectMax(rows, column) ==
    LET vals == {rows[i][column] : i \in 1..Len(rows)} \ {None}
    IN  IF vals = {} THEN None
        ELSE CHOOSE x \in vals : \A y \in vals : y <= x

(***************************************************************************)
(* checks.py: CheckResult and the check functions.  A call either returns  *)
(* a CheckResult or raises.                                                *)
(***************************************************************************)
CheckResult(check_name, table_name, passed, expected, actual, message, severity) ==
    [check_name |-> check_name, table_name |-> table_name, passed |-> passed,
     expected |-> expected, actual |-> actual, message |-> message,
     severity |-> severity]

NoResult == CheckResult("", "", FALSE, "", "", "", "")

Return(res) == [raised |-> FALSE, cls |-> "", text |-> "", res |-> res]

Raise(cls, text) == [raised |-> TRUE, cls |-> cls, text |-> text, res |-> NoResult]

\* what the with-block of a check raises: the connection, else the statement
Raised(fault, sqlerror) ==
    IF fault # NoFault THEN Raise("OperationalError", fault)
    ELSE Raise("ProgrammingError", sqlerror)

\* a maximum tested for truth: a max_count of 0 is not applied
RowCountPassedTruthy(count, min_count, max_count) ==
    IF Truthy(max_count)
    THEN count >= min_count /\ count <= max_count
    ELSE count >= min_count

RowCountPassed(count, min_count, max_count) ==
    IF max_count # None
    THEN count >= min_count /\ count <= max_count
    ELSE count >= min_count

\* actual is the count itself, an int; f"{count:,}" has no separator below
\* 1000
check_row_count(fault, tables, table_name, min_count, max_count, severity) ==
    LET err == SqlError(tables, {table_name}, {}, TRUE)
        count == SelectCount(tables[table_name])
        passed == RowCountPassed(count, min_count, max_count)
        expected == ">= " \o IntStr(min_count)
                    \o (IF Truthy(max_count)
                        THEN " and <= " \o IntStr(max_count) ELSE "")
        message == "Found " \o IntStr(count) \o " rows (expected "
                   \o expected \o ")"
    IN  IF fault # NoFault \/ err # "" THEN Raised(fault, err)
        ELSE Return(CheckResult("row_count", table_name, passed, expected,
                                count, message, severity))

\* null_pct = (null_count / (total * len(columns))) * 100
NullPct(null_count, total, ncolumns) ==
    FloatMulInt(FloatDiv(null_count, total * ncolumns), 100)

NullPassed(null_pct, max_null_pct) == FloatLE(null_pct, FromInt(max_null_pct.v))

\* an empty-table result that keeps the configured severity
EmptyTableResultConfigured(table_name, max_null_pct, severity) ==
    CheckResult("null_values", table_name, TRUE,
                "<= " \o NumStr(max_null_pct) \o "%", "0%",
                "Table is empty, no nulls possible", severity)

\* the result of check_null_values on a table without rows
EmptyTableResult(table_name, max_null_pct, severity) ==
    CheckResult("null_values", table_name, TRUE,
                "<= " \o NumStr(max_null_pct) \o "%", "0%",
                "Table is empty, no nulls possible", "info")

check_null_values(fault, tables, table_name, columns, max_null_pct, severity) ==
    LET err == SqlError(tables, {table_name}, Range(columns), columns # <<>>)
        rows == tables[table_name]
        total == SelectCount(rows)
        sum == SelectNullCount(rows, columns)
        null_count == IF sum = None \/ sum = 0 THEN 0 ELSE sum
        null_pct == NullPct(null_count, total, Len(columns))
        passed == NullPassed(null_pct, max_null_pct)
        expected == "<= " \o NumStr(max_null_pct) \o "%"
    IN  IF fault # NoFault \/ err # "" THEN Raised(fault, err)
        ELSE IF total = 0
        THEN Return(EmptyTableResult(table_name, max_null_pct, severity))
        ELSE Return(CheckResult("null_values", table_name, passed, expected,
                 Fmt2f(null_pct) \o "%",
                 "Columns " \o ListStr(columns) \o ": " \o Fmt2f(null_pct)
                 \o "% null (expected <= " \o NumStr(max_null_pct) \o "%)",
                 severity))

DuplicatesPassed(duplicates) == duplicates = 0

check_duplicates(fault, tables, table_name, columns, severity) ==
    LET err == SqlError(tables, {table_name}, Range(columns), columns # <<>>)
        duplicates == SelectDuplicates(tables[table_name], columns)
        passed == DuplicatesPassed(duplicates)
    IN  IF fault # NoFault \/ err # "" THEN Raised(fault, err)
        ELSE Return(CheckResult("no_duplicates", table_name, passed,
                 "0 duplicates",
                 IntStr(duplicates) \o " duplicate groups found",
                 "Columns " \o ListStr(columns) \o ": "
                 \o (IF passed THEN "No duplicates"
                     ELSE IntStr(duplicates) \o "+ duplicate groups"),
                 severity))

check_referential_integrity(fault, tables, table_name, column, reference_table, reference_column, severity) ==
    LET err == SqlError(tables, {table_name, reference_table},
                        {column, reference_column}, TRUE)
        orphan_count == SelectOrphans(tables[table_name], column,
                                      tables[reference_table], reference_column)
        passed == orphan_count = 0
    IN  IF fault # NoFault \/ err # "" THEN Raised(fault, err)
        ELSE Return(CheckResult("referential_integrity", table_name, passed,
                 "0 orphaned records",
                 IntStr(orphan_count) \o " orphaned values",
                 table_name \o "." \o column \o " -> " \o reference_table
                 \o "." \o reference_column \o ": " \o IntStr(orphan_count)
                 \o " orphaned",
                 severity))

\* the default of an Optional[List] parameter: None, which the code only
\* tests for truth, as it does the empty list
NoList == <<>>

check_value_range(fault, tables, table_name, column, min_value, max_value, allowed_values, severity) ==
    LET err == SqlError(tables, {table_name}, {column}, TRUE)
        in_set == allowed_values # <<>>
        unconstrained == ~in_set /\ min_value = None /\ max_value = None
        violations ==
            IF in_set
            THEN SelectNotInSet(tables[table_name], column, allowed_values)
            ELSE SelectOutOfRange(tables[table_name], column, min_value, max_value)
        passed == violations = 0
        expected ==
            IF in_set THEN "values in " \o IntListStr(allowed_values)
            ELSE OptStr(min_value) \o " <= " \o column \o " <= " \o OptStr(max_value)
        actual ==
            IF in_set THEN IntStr(violations) \o " values outside allowed set"
            ELSE IntStr(violations) \o " values out of range"
    IN  IF fault # NoFault THEN Raised(fault, err)
        ELSE IF unconstrained
        THEN Return(CheckResult("value_range", table_name, TRUE,
                 "No constraints specified", "N/A",
                 "No range constraints provided", "info"))
        ELSE IF err # "" THEN Raised(fault, err)
        ELSE Return(CheckResult("value_range", table_name, passed, expected,
                 actual,
                 IF ~passed THEN column \o ": " \o actual
                 ELSE column \o ": All values in range",
                 severity))

\* timestamps and the clock count whole hours
SecondsPerHour == 3600

\* a result for a table without timestamps that is always an error
NoDataResultError(table_name, max_age_hours, severity) ==
    CheckResult("freshness", table_name, FALSE,
                "Data within " \o IntStr(max_age_hours) \o " hours",
                "No data found", "No timestamps found in table", "error")

\* the result of check_freshness when MAX(timestamp_column) is NULL
NoDataResult(table_name, max_age_hours, severity) ==
    CheckResult("freshness", table_name, FALSE,
                "Data within " \o IntStr(max_age_hours) \o " hours",
                "No data found", "No timestamps found in table", severity)

check_freshness(fault, tables, clock, table_name, timestamp_column, max_age_hours, severity) ==
    LET err == SqlError(tables, {table_name}, {timestamp_column}, TRUE)
        latest == SelectMax(tables[table_name], timestamp_column)
        age_hours == FloatDiv((clock - latest) * SecondsPerHour, SecondsPerHour)
        passed == FloatLE(age_hours, FromInt(max_age_hours))
    IN  IF fault # NoFault \/ err # "" THEN Raised(fault, err)
        ELSE IF latest = None
        THEN Return(NoDataResult(table_name, max_age_hours, severity))
        ELSE Return(CheckResult("freshness", table_name, passed,
                 "<= " \o IntStr(max_age_hours) \o " hours old",
                 Fmt1f(age_hours) \o " hours old",
                 "Latest record: " \o IntStr(latest) \o " ("
                 \o Fmt1f(age_hours) \o "h ago)",
                 severity))

(***************************************************************************)
(* expectations.py: DataQualityChecker.  checks is self._checks; each      *)
(* expect_* call appends one specification [func, kwargs].  config_calls   *)
(* counts the configuration calls made and configured logs each of them:   *)
(* the method and its arguments.                                           *)
(***************************************************************************)
MaxChecks == 2

SuiteName == "Default Suite"

\* the calls of run() on one checker
MaxRuns == 2

\* the checker object: what `return self` hands back
Self == "DataQualityChecker"

\* an insertion at the head of the list
RegisterFront(list, spec) == <<spec>> \o list

\* self._checks.append(spec)
Register(list, spec) == Append(list, spec)

\* a configuration call is made before run(), on a suite within the bound
Configurable == pc = "idle" /\ Len(checks) < MaxChecks

Configure(func, kwargs) ==
    /\ checks' = Register(checks, [func |-> func, kwargs |-> kwargs])
    /\ config_calls' = config_calls + 1
    /\ ret' = Self
    /\ UNCHANGED <<store, now, pc, idx, results, calls, suite, history, phase,
                   exit_code, apart>>

expect_row_count(table_name, min_count, max_count, severity) ==
    /\ Configurable
    /\ Configure("check_row_count",
                 [table_name |-> table_name, min_count |-> min_count,
                  max_count |-> max_count, severity |-> severity])
    /\ configured' = Append(configured,
           <<"expect_row_count", table_name, min_count, max_count, severity>>)

\* an expect_no_nulls that drops its severity argument
expect_no_nulls_error(table_name, columns, severity) ==
    /\ Configurable
    /\ Configure("check_null_values",
                 [table_name |-> table_name, columns |-> columns,
                  max_null_pct |-> Num(0, TRUE), severity |-> "error"])
    /\ configured' = Append(configured,
           <<"expect_no_nulls", table_name, columns, severity>>)

expect_no_nulls(table_name, columns, severity) ==
    /\ Configurable
    /\ Configure("check_null_values",
                 [table_name |-> table_name, columns |-> columns,
                  max_null_pct |-> Num(0, TRUE), severity |-> severity])
    /\ configured' = Append(configured,
           <<"expect_no_nulls", table_name, columns, severity>>)

expect_null_rate(table_name, columns, max_pct, severity) ==
    /\ Configurable
    /\ Configure("check_null_values",
                 [table_name |-> table_name, columns |-> columns,
                  max_null_pct |-> max_pct, severity |-> severity])
    /\ configured' = Append(configured,
           <<"expect_null_rate", table_name, columns, max_pct, severity>>)

expect_unique(table_name, columns, severity) ==
    /\ Configurable
    /\ Configure("check_duplicates",
                 [table_name |-> table_name, columns |-> columns,
                  severity |-> severity])
    /\ configured' = Append(configured,
           <<"expect_unique", table_name, columns, severity>>)

expect_referential_integrity(table_name, column, reference_table, reference_column, severity) ==
    /\ Configurable
    /\ Configure("check_referential_integrity",
                 [table_name |-> table_name, column |-> column,
                  reference_table |-> reference_table,
                  reference_column |-> reference_column, severity |-> severity])
    /\ configured' = Append(configured,
           <<"expect_referential_integrity", table_name, column, reference_table, reference_column, severity>>)

expect_values_in_set(table_name, column, allowed_values, severity) ==
    /\ Configurable
    /\ Configure("check_value_range",
                 [table_name |-> table_name, column |-> column,
                  allowed_values |-> allowed_values, severity |-> severity])
    /\ configured' = Append(configured,
           <<"expect_values_in_set", table_name, column, allowed_values, severity>>)

expect_value_range(table_name, column, min_value, max_value, severity) ==
    /\ Configurable
    /\ Configure("check_value_range",
                 [table_name |-> table_name, column |-> column,
                  min_value |-> min_value, max_value |-> max_value,
                  severity |-> severity])
    /\ configured' = Append(configured,
           <<"expect_value_range", table_name, column, min_value, max_value, severity>>)

expect_freshness(table_name, timestamp_column, max_age_hours, severity) ==
    /\ Configurable
    /\ Configure("check_freshness",
                 [table_name |-> table_name,
                  timestamp_column |-> timestamp_column,
                  max_age_hours |-> max_age_hours, severity |-> severity])
    /\ configured' = Append(configured,
           <<"expect_freshness", table_name, timestamp_column, max_age_hours, severity>>)

\* kwargs.get(key, default)
Get(kwargs, key, default) ==
    IF key \in DOMAIN kwargs THEN kwargs[key] ELSE default

\* check["func"](**check["kwargs"]), the parameters a specification leaves
\* out taking the defaults of the check function
Call(check, fault, tables, clock) ==
    LET kw == check.kwargs
    IN  CASE check.func = "check_row_count" ->
               check_row_count(fault, tables, kw.table_name, kw.min_count,
                               kw.max_count, kw.severity)
          [] check.func = "check_null_values" ->
               check_null_values(fault, tables, kw.table_name, kw.columns,
                                 kw.max_null_pct, kw.severity)
          [] check.func = "check_duplicates" ->
               check_duplicates(fault, tables, kw.table_name, kw.columns,
                                kw.severity)
          [] check.func = "check_referential_integrity" ->
               check_referential_integrity(fault, tables, kw.table_name,
                   kw.column, kw.reference_table, kw.reference_column,
                   kw.severity)
          [] check.func = "check_value_range" ->
               check_value_range(fault, tables, kw.table_name, kw.column,
                   Get(kw, "min_value", None), Get(kw, "max_value", None),
                   Get(kw, "allowed_values", NoList), kw.severity)
          [] check.func = "check_freshness" ->
               check_freshness(fault, tables, clock, kw.table_name,
                   kw.timestamp_column, kw.max_age_hours, kw.severity)

\* a block that closes its connection only when its body returns
WithConnectionLeak(fault, raised) ==
    IF fault # NoFault THEN <<>>
    ELSE IF raised THEN <<"connect">>
    ELSE <<"connect", "close">>

\* with engine.connect() as conn: what a call of a check function does to
\* the connections of the engine.  A connect() that raises opens none; one
\* that returns is closed when the block is left, by return or by exception.
WithConnection(fault, raised) ==
    IF fault # NoFault THEN <<>> ELSE <<"connect", "close">>

\* a handler that catches the errors of the statement only
CatchesProgrammingOnly(cls) == cls = "ProgrammingError"

\* except Exception: the classes the handler of run() catches
Catches(cls) == cls \in ExceptionClasses

\* a run() that puts each new result in front
OnResultFront(list, res) == <<res>> \o list

\* results.append(result)
OnResult(list, res) == Append(list, res)

\* the CheckResult run() records for a check that raised
ExecutionFailure(check, text) ==
    CheckResult(check.func, Get(check.kwargs, "table_name", "unknown"), FALSE,
                "Check to execute", text,
                "Check failed to execute: " \o text, "error")

\* an except branch that records nothing
OnExceptionSkip(list, check, text) == list

\* the except branch of run()
OnException(list, check, text) == Append(list, ExecutionFailure(check, text))

CountPassed(list) == Cardinality({i \in 1..Len(list) : list[i].passed})

\* a count of every result that did not pass
CountFailedAny(list) == Cardinality({i \in 1..Len(list) : ~list[i].passed})

CountFailed(list) ==
    Cardinality({i \in 1..Len(list) :
        ~list[i].passed /\ list[i].severity = "error"})

\* a count of every failure that is not an error
CountWarningsNotError(list) ==
    Cardinality({i \in 1..Len(list) :
        ~list[i].passed /\ list[i].severity # "error"})

CountWarnings(list) ==
    Cardinality({i \in 1..Len(list) :
        ~list[i].passed /\ list[i].severity = "warning"})

SuiteResult(suite_name, run_timestamp, list) ==
    [suite_name |-> suite_name, run_timestamp |-> run_timestamp,
     total_checks |-> Len(list), passed_checks |-> CountPassed(list),
     failed_checks |-> CountFailed(list),
     warning_checks |-> CountWarnings(list), results |-> list]

\* a success that warnings block as well
successStrict(s) == s.failed_checks = 0 /\ s.warning_checks = 0

\* SuiteResult.success
success(s) == s.failed_checks = 0

\* "=" * 60 and "-" * 60
RuleWidth == 60

RECURSIVE Times(_, _)
Times(c, n) == IF n = 0 THEN "" ELSE c \o Times(c, n - 1)

\* a status that knows no warning, as CheckResult.__str__ has it
StatusNoWarn(result) == IF result.passed THEN "PASS" ELSE "FAIL"

\* "PASS" if result.passed else ("WARN" if result.severity == "warning" else
\* "FAIL")
Status(result) ==
    IF result.passed THEN "PASS"
    ELSE IF result.severity = "warning" THEN "WARN" ELSE "FAIL"

Icon(status) ==
    CASE status = "PASS" -> "[OK]"
      [] status = "WARN" -> "[!]"
      [] status = "FAIL" -> "[X]"

\* the two lines summary() appends for a result
Block(result) ==
    <<Icon(Status(result)) \o " " \o result.check_name \o ": "
          \o result.table_name,
      "    " \o result.message>>

RECURSIVE Blocks(_)
Blocks(list) ==
    IF list = <<>> THEN <<>> ELSE Block(list[1]) \o Blocks(Tail(list))

\* the list `lines` of summary(); str(run_timestamp) is the hour count
SummaryLines(s) ==
    <<Times("=", RuleWidth),
      "Data Quality Suite: " \o s.suite_name,
      "Run at: " \o IntStr(s.run_timestamp),
      Times("=", RuleWidth),
      "Total: " \o IntStr(s.total_checks) \o " | Passed: "
          \o IntStr(s.passed_checks) \o " | Failed: "
          \o IntStr(s.failed_checks) \o " | Warnings: "
          \o IntStr(s.warning_checks),
      Times("-", RuleWidth)>>
    \o Blocks(s.results)
    \o <<Times("=", RuleWidth),
         "Suite Result: " \o (IF success(s) THEN "PASSED" ELSE "FAILED"),
         Times("=", RuleWidth)>>

RECURSIVE Join(_, _)
Join(lines, sep) ==
    IF lines = <<>> THEN ""
    ELSE IF Len(lines) = 1 THEN lines[1]
    ELSE lines[1] \o sep \o Join(Tail(lines), sep)

\* SuiteResult.summary
summary(s) == Join(SummaryLines(s), "\n")

\* no SuiteResult yet
NoSuite == [suite_name |-> "", run_timestamp |-> None, total_checks |-> 0,
            passed_checks |-> 0, failed_checks |-> 0, warning_checks |-> 0,
            results |-> <<>>]

\* run(), entry: results = []
RunBegin ==
    /\ pc = "idle"
    /\ pc' = "running"
    /\ idx' = 1
    /\ results' = <<>>
    /\ calls' = <<>>
    /\ UNCHANGED <<store, now, checks, config_calls, suite, configured,
                   history, ret, phase, exit_code, apart>>

\* a second run() that goes on with the results of the first
RunAgainKeep ==
    /\ pc = "returned"
    /\ Len(history) < MaxRuns
    /\ pc' = "running"
    /\ idx' = 1
    /\ results' = results
    /\ calls' = <<>>
    /\ UNCHANGED <<store, now, checks, config_calls, suite, configured,
                   history, ret, phase, exit_code, apart>>

\* run(), entry, on a checker that has run before
RunAgain ==
    /\ pc = "returned"
    /\ Len(history) < MaxRuns
    /\ pc' = "running"
    /\ idx' = 1
    /\ results' = <<>>
    /\ calls' = <<>>
    /\ UNCHANGED <<store, now, checks, config_calls, suite, configured,
                   history, ret, phase, exit_code, apart>>

\* a loop whose checks delete the rows they have looked at
RunCheckPurge(fault) ==
    /\ pc = "running"
    /\ idx <= Len(checks)
    /\ LET check == checks[idx]
           out == Call(check, fault, store, now)
       IN  /\ results' = IF ~out.raised THEN OnResult(results, out.res)
                         ELSE OnException(results, check, out.text)
           /\ calls' = Append(calls, [spec |-> idx, raised |-> out.raised,
                                      text |-> out.text, at |-> now,
                                      conn |-> WithConnection(fault, out.raised)])
           /\ store' = IF out.raised THEN store
                       ELSE [store EXCEPT !.t = <<>>]
    /\ idx' = idx + 1
    /\ pc' = "running"
    /\ UNCHANGED <<now, checks, config_calls, suite, configured,
                   history, ret, phase, exit_code, apart>>

\* a loop that calls a check that raised once more
RunCheckRetry(fault) ==
    /\ pc = "running"
    /\ idx <= Len(checks)
    /\ LET check == checks[idx]
           out == Call(check, fault, store, now)
       IN  /\ results' = IF ~out.raised THEN OnResult(results, out.res)
                         ELSE results
           /\ idx' = IF out.raised /\ Len(calls) < MaxChecks THEN idx ELSE idx + 1
           /\ calls' = Append(calls, [spec |-> idx, raised |-> out.raised,
                                      text |-> out.text, at |-> now,
                                      conn |-> WithConnection(fault, out.raised)])
    /\ pc' = "running"
    /\ UNCHANGED <<store, now, checks, config_calls, suite, configured,
                   history, ret, phase, exit_code, apart>>

\* run(), one iteration of the loop over self._checks: the call of the
\* check and the try/except around it.  calls logs the invocation, the
\* time of it and what it did to the connections of the engine.
RunCheck(fault) ==
    /\ pc = "running"
    /\ idx <= Len(checks)
    /\ LET check == checks[idx]
           out == Call(check, fault, store, now)
       IN  /\ results' = IF ~out.raised THEN OnResult(results, out.res)
                         ELSE IF Catches(out.cls)
                         THEN OnException(results, check, out.text)
                         ELSE results
           /\ pc' = IF out.raised /\ ~Catches(out.cls)
                    THEN "propagated" ELSE "running"
           /\ calls' = Append(calls, [spec |-> idx, raised |-> out.raised,
                                      text |-> out.text, at |-> now,
                                      conn |-> WithConnection(fault, out.raised)])
    /\ idx' = idx + 1
    /\ UNCHANGED <<store, now, checks, config_calls, suite, configured,
                   history, ret, phase, exit_code, apart>>

\* a run() that hands its specifications over and leaves none behind
RunReturnConsume ==
    /\ pc = "running"
    /\ idx > Len(checks)
    /\ suite' = SuiteResult(SuiteName, now, results)
    /\ history' = Append(history,
           [suite |-> suite', calls |-> calls, checks |-> checks])
    /\ pc' = "returned"
    /\ checks' = <<>>
    /\ UNCHANGED <<store, now, config_calls, idx, results, calls,
                   configured, ret, phase, exit_code, apart>>

\* run(), after the loop: the counts and the SuiteResult returned.  history
\* logs each run: its SuiteResult, its invocations and the specifications
\* the checker held when it returned.
RunReturn ==
    /\ pc = "running"
    /\ idx > Len(checks)
    /\ suite' = SuiteResult(SuiteName, now, results)
    /\ history' = Append(history,
           [suite |-> suite', calls |-> calls, checks |-> checks])
    /\ pc' = "returned"
    /\ UNCHANGED <<store, now, checks, config_calls, idx, results, calls,
                   configured, ret, phase, exit_code, apart>>

(***************************************************************************)
(* The inputs: stores, and the arguments of the configuration calls.       *)
(***************************************************************************)
Row(k, v, ts) == [k |-> k, v |-> v, ts |-> ts]

Severities == {"error", "warning", "info"}

\* severity is an unchecked str argument of every expect_* method
SeverityArgs == Severities \cup {"critical"}

Faults == {NoFault, ConnectionLost}

MaxNow == 5

\* three warehouses: no data; clean data; data with a null, a duplicate
\* key, an orphan, a value out of range and no recent row
MainStores ==
    { [t |-> <<>>, r |-> <<>>],
      [t |-> <<Row(0, 0, MaxNow), Row(1, 0, MaxNow)>>,
       r |-> <<Row(0, 0, 0), Row(1, 0, 0)>>],
      [t |-> <<Row(1, None, 0), Row(1, 1, None)>>, r |-> <<Row(0, 0, 0)>>] }

\* the threads that call run() at the same time
Threads == {1, 2}

\* the locals of a run() that has not begun
NoRun == [pc |-> "idle", idx |-> 1, results |-> <<>>, calls |-> <<>>,
          suite |-> NoSuite]

\* no frame cleaned yet
NoClean == [status |-> "none", frame |-> <<>>]

\* nothing run yet of the script and the transformer
InitRest ==
    /\ issues_found = <<>>
    /\ events_raw = <<>>
    /\ events_clean = NoClean

InitChecker ==
    /\ threads = [t \in Threads |-> NoRun]
    /\ checks = <<>>
    /\ config_calls = 0
    /\ pc = "idle"
    /\ idx = 1
    /\ results = <<>>
    /\ calls = <<>>
    /\ suite = NoSuite
    /\ configured = <<>>
    /\ history = <<>>
    /\ ret = ""
    /\ phase = "idle"
    /\ exit_code = None

Init ==
    /\ store \in MainStores
    /\ now = MaxNow
    /\ InitChecker
    /\ InitRest

\* datetime.now() moves on, in hours
Tick ==
    /\ now < MaxNow
    /\ now' = now + 1
    /\ UNCHANGED <<store, checks, config_calls, pc, idx, results, calls, suite,
                   configured, history, ret, phase, exit_code, apart>>

\* the caller has the SuiteResult and goes on with the checker
Resume ==
    /\ pc = "returned"
    /\ Len(history) < MaxRuns
    /\ pc' = "idle"
    /\ UNCHANGED <<store, now, checks, config_calls, idx, results, calls, suite,
                   configured, history, ret, phase, exit_code, apart>>

Run ==
    \/ RunBegin
    \/ \E fault \in Faults : RunCheck(fault)
    \/ RunReturn

Next ==
    \/ \E sev \in SeverityArgs : expect_row_count("t", 1, None, sev)
    \/ expect_no_nulls("t", <<"k", "v">>, "error")
    \/ expect_null_rate("t", <<"v">>, Num(50, TRUE), "warning")
    \/ expect_unique("t", <<"k">>, "error")
    \/ expect_referential_integrity("t", "k", "r", "k", "error")
    \/ \E tbl \in {"t", "missing"} :
          expect_values_in_set(tbl, "v", <<0>>, "warning")
    \/ \E b \in {None, 0}, sev \in {"error", "info"} :
          expect_value_range("t", "v", b, b, sev)
    \/ expect_freshness("t", "ts", 1, "warning")
    \/ Run

Spec == Init /\ [][Next]_vars
(***************************************************************************)
(* Suites of one check, over larger sets of stores and arguments.          *)
(***************************************************************************)
MaxRows == 3

MaxCount == 2

MaxVal == 1

MaxNullRows == 10

\* tables of n distinct rows without nulls
PlainTable(n) == [i \in 1..n |-> Row(i, 0, 0)]

InitRowCount ==
    /\ store \in {[t |-> PlainTable(n), r |-> <<>>] : n \in 0..MaxRows}
    /\ now = MaxNow
    /\ InitChecker
    /\ InitRest

NextRowCount ==
    \/ \E min_count \in 0..MaxCount, max_count \in {None} \cup (0..MaxCount),
          sev \in {"error", "warning"} :
          checks = <<>> /\ expect_row_count("t", min_count, max_count, sev)
    \/ Run

SpecRowCount == InitRowCount /\ [][NextRowCount]_vars

\* a table of full rows without nulls, half rows with v null and void rows
\* with k and v null
NullTable(full, half, void) ==
    [i \in 1..(full + half + void) |->
        IF i <= full THEN Row(i, 0, 0)
        ELSE IF i <= full + half THEN Row(i, None, 0)
        ELSE Row(None, None, 0)]

NullTables ==
    {NullTable(c[1], c[2], c[3]) :
        c \in {d \in (0..MaxNullRows) \X (0..MaxNullRows) \X (0..MaxNullRows) :
                  d[1] + d[2] + d[3] <= MaxNullRows}}

\* thresholds in percent, as the floats 0.0, 4.0, ...
NullPctArgs == {Num(p, TRUE) : p \in {0, 4, 5, 6, 55}}

InitNull ==
    /\ store \in {[t |-> tbl, r |-> <<>>] : tbl \in NullTables}
    /\ now = MaxNow
    /\ InitChecker
    /\ InitRest

NextNull ==
    \/ \E columns \in {<<"v">>, <<"k", "v">>}, sev \in {"error", "warning"} :
          checks = <<>> /\ expect_no_nulls("t", columns, sev)
    \/ \E columns \in {<<"v">>, <<"k", "v">>}, max_pct \in NullPctArgs,
          sev \in {"error", "warning"} :
          checks = <<>> /\ expect_null_rate("t", columns, max_pct, sev)
    \/ Run

SpecNull == InitNull /\ [][NextNull]_vars

\* the rows over k, v in None, 0..MaxVal, numbered
RowCodes == 0..((MaxVal + 2) * (MaxVal + 2) - 1)

RowOfCode(c) == Row((c \div (MaxVal + 2)) - 1, (c % (MaxVal + 2)) - 1, 0)

\* a table is a bag of rows: one sequence for each
SortedCodes(n) ==
    {s \in UNION {[1..m -> RowCodes] : m \in 0..n} :
        \A i \in 1..(Len(s) - 1) : s[i] <= s[i + 1]}

DupTables ==
    {[i \in 1..Len(s) |-> RowOfCode(s[i])] : s \in SortedCodes(MaxRows)}

InitDup ==
    /\ store \in {[t |-> tbl, r |-> <<>>] : tbl \in DupTables}
    /\ now = MaxNow
    /\ InitChecker
    /\ InitRest

NextDup ==
    \/ \E columns \in {<<"k">>, <<"k", "v">>}, sev \in {"error", "warning"} :
          checks = <<>> /\ expect_unique("t", columns, sev)
    \/ Run

SpecDup == InitDup /\ [][NextDup]_vars

\* the tables of at most n rows whose k is None or within 0..MaxVal
KeyRows(n) ==
    {s \in UNION {[1..m -> None..MaxVal] : m \in 0..n} :
        \A i \in 1..(Len(s) - 1) : s[i] <= s[i + 1]}

KeyTable(s) == [i \in 1..Len(s) |-> Row(s[i], 0, 0)]

InitRef ==
    /\ store \in {[t |-> KeyTable(a), r |-> KeyTable(b)] :
                     a \in KeyRows(MaxRows), b \in KeyRows(MaxRows)}
    /\ now = MaxNow
    /\ InitChecker
    /\ InitRest

NextRef ==
    \/ \E sev \in {"error", "warning"} :
          checks = <<>> /\ expect_referential_integrity("t", "k", "r", "k", sev)
    \/ Run

SpecRef == InitRef /\ [][NextRef]_vars

\* the tables of at most n rows whose v is None or within 0..MaxVal
ValTable(s) == [i \in 1..Len(s) |-> Row(i, s[i], 0)]

\* the lists over 0..MaxVal a caller passes as allowed_values, [] included
AllowedArgs == {<<>>} \cup {<<a>> : a \in 0..MaxVal} \cup {<<0, MaxVal>>}

InitRange ==
    /\ store \in {[t |-> ValTable(s), r |-> <<>>] : s \in KeyRows(MaxRows)}
    /\ now = MaxNow
    /\ InitChecker
    /\ InitRest

NextRange ==
    \/ \E allowed_values \in AllowedArgs, sev \in {"error", "warning"} :
          checks = <<>> /\ expect_values_in_set("t", "v", allowed_values, sev)
    \/ \E min_value, max_value \in None..MaxVal, sev \in {"error", "warning"} :
          checks = <<>> /\ expect_value_range("t", "v", min_value, max_value, sev)
    \/ Run

SpecRange == InitRange /\ [][NextRange]_vars

\* the tables of at most n rows whose ts is None or within 0..MaxNow
StampRows(n) ==
    {s \in UNION {[1..m -> None..MaxNow] : m \in 0..n} :
        \A i \in 1..(Len(s) - 1) : s[i] <= s[i + 1]}

StampTable(s) == [i \in 1..Len(s) |-> Row(i, 0, s[i])]

InitFresh ==
    /\ store \in {[t |-> StampTable(s), r |-> <<>>] : s \in StampRows(MaxRows)}
    /\ now = MaxNow
    /\ InitChecker
    /\ InitRest

NextFresh ==
    \/ \E max_age_hours \in 0..MaxCount, sev \in Severities :
          checks = <<>> /\ expect_freshness("t", "ts", max_age_hours, sev)
    \/ Run

SpecFresh == InitFresh /\ [][NextFresh]_vars

\* a zero threshold as a caller of expect_null_rate may write it: 0 or 0.0
ZeroArgs == {Num(0, FALSE), Num(0, TRUE)}

\* an expect_no_nulls call followed by an expect_null_rate call with a zero
\* threshold
InitNoNulls ==
    /\ store \in {[t |-> NullTable(c[1], c[2], c[3]), r |-> <<>>] :
                     c \in {d \in (0..MaxRows) \X (0..MaxRows) \X (0..MaxRows) :
                               d[1] + d[2] + d[3] <= MaxRows}}
    /\ now = MaxNow
    /\ InitChecker
    /\ InitRest

NextNoNulls ==
    \/ \E columns \in {<<"v">>, <<"k", "v">>}, sev \in {"error", "warning"} :
          checks = <<>> /\ expect_no_nulls("t", columns, sev)
    \/ \E columns \in {<<"v">>, <<"k", "v">>}, max_pct \in ZeroArgs,
          sev \in {"error", "warning"} :
          Len(checks) = 1 /\ expect_null_rate("t", columns, max_pct, sev)
    \/ Run

SpecNoNulls == InitNoNulls /\ [][NextNoNulls]_vars

\* a suite of a row count check and a freshness check run again and again on
\* a store that stays as it is and can be reached, while the clock moves on
InitRerun ==
    /\ store \in {[t |-> StampTable(s), r |-> <<>>] : s \in {<<>>, <<None>>, <<0>>}}
    /\ now = 0
    /\ InitChecker
    /\ InitRest

NextRerun ==
    \/ checks = <<>> /\ expect_row_count("t", 1, None, "error")
    \/ \E max_age_hours \in 0..MaxCount :
          Len(checks) = 1 /\ expect_freshness("t", "ts", max_age_hours, "warning")
    \/ RunBegin
    \/ RunCheck(NoFault)
    \/ RunReturn
    \/ RunAgain
    \/ Tick

SpecRerun == InitRerun /\ [][NextRerun]_vars

(***************************************************************************)
(* main.py: run_etl_pipeline.  phase is the position in the function, a    *)
(* step is one phase of it, which either completes or raises; the except   *)
(* clause logs the failure and exits with status 1.  What the load phase   *)
(* leaves in the warehouse depends on the files read.                      *)
(***************************************************************************)
\* sys.exit(1)
ExitFailure == 1

\* except Exception as e: logger.error(...); sys.exit(1)
OnPipelineError ==
    /\ phase' = "failed"
    /\ exit_code' = ExitFailure

Advance(ok, next) ==
    IF ok THEN phase' = next /\ exit_code' = exit_code ELSE OnPipelineError

\* engine = create_db_engine() and the path of the raw data
Setup(ok) ==
    /\ phase = "idle"
    /\ Advance(ok, "setup")
    /\ UNCHANGED <<store, now, checks, config_calls, pc, idx, results, calls,
                   suite, configured, history, ret, apart>>

\* the four extract_* calls
Extract(ok) ==
    /\ phase = "setup"
    /\ Advance(ok, "extracted")
    /\ UNCHANGED <<store, now, checks, config_calls, pc, idx, results, calls,
                   suite, configured, history, ret, apart>>

\* the four clean_* calls and enrich_user_events
Transform(ok) ==
    /\ phase = "extracted"
    /\ Advance(ok, "transformed")
    /\ UNCHANGED <<store, now, checks, config_calls, pc, idx, results, calls,
                   suite, configured, history, ret, apart>>

\* the four load_* calls: rows written to the warehouse, also by the calls
\* that precede one that raises
Load(ok, loaded) ==
    /\ phase = "transformed"
    /\ store' = loaded
    /\ Advance(ok, "loaded")
    /\ UNCHANGED <<now, checks, config_calls, pc, idx, results, calls, suite,
                   configured, history, ret, apart>>

\* logger.info("Pipeline execution completed successfully.") and return
Complete ==
    /\ phase = "loaded"
    /\ phase' = "completed"
    /\ UNCHANGED <<store, now, checks, config_calls, pc, idx, results, calls,
                   suite, configured, history, ret, exit_code, apart>>

run_etl_pipeline ==
    \/ \E ok \in BOOLEAN : Setup(ok)
    \/ \E ok \in BOOLEAN : Extract(ok)
    \/ \E ok \in BOOLEAN : Transform(ok)
    \/ \E ok \in BOOLEAN, loaded \in MainStores : Load(ok, loaded)
    \/ Complete

\* the pipeline, and a suite of one row count check on the warehouse it loads
NextPipeline ==
    \/ run_etl_pipeline
    \/ \E sev \in {"error", "warning"} :
          checks = <<>> /\ expect_row_count("t", 1, None, sev)
    \/ Run

SpecPipeline == Init /\ [][NextPipeline]_vars

\* runs of a checker that is configured further between them
NextReconfig ==
    \/ \E sev \in {"error", "warning"} : expect_row_count("t", 1, None, sev)
    \/ expect_unique("t", <<"k">>, "error")
    \/ Run
    \/ RunAgain
    \/ Resume

SpecReconfig == Init /\ [][NextReconfig]_vars

(***************************************************************************)
(* run() called by two threads on one checker.  results, the loop position *)
(* and the SuiteResult are locals of each call; self._checks, the engine   *)
(* and the suite name are read by both.                                    *)
(***************************************************************************)
\* the variables no step of a thread's run() writes
beside == <<store, now, checks, config_calls, pc, idx, results, calls, suite,
            configured, history, ret, phase, exit_code, issues_found,
            events_raw, events_clean>>

\* run(), entry, in thread t: results = []
ThreadBegin(t) ==
    /\ threads[t].pc = "idle"
    /\ checks # <<>>
    /\ threads' = [threads EXCEPT ![t] = [NoRun EXCEPT !.pc = "running"]]
    /\ UNCHANGED beside

\* a results list that is an attribute of the checker: every running call
\* appends to the same list
ThreadCheckShared(t, fault) ==
    /\ threads[t].pc = "running"
    /\ threads[t].idx <= Len(checks)
    /\ LET check == checks[threads[t].idx]
           out == Call(check, fault, store, now)
           list == IF ~out.raised THEN OnResult(threads[t].results, out.res)
                   ELSE OnException(threads[t].results, check, out.text)
       IN  threads' = [u \in Threads |->
               IF u = t
               THEN [threads[t] EXCEPT !.results = list, !.idx = @ + 1,
                        !.calls = Append(@, [spec |-> threads[t].idx,
                            raised |-> out.raised, text |-> out.text])]
               ELSE IF threads[u].pc = "running"
               THEN [threads[u] EXCEPT !.results = list]
               ELSE threads[u]]
    /\ UNCHANGED beside

\* run(), one iteration of the loop in thread t
ThreadCheck(t, fault) ==
    /\ threads[t].pc = "running"
    /\ threads[t].idx <= Len(checks)
    /\ LET check == checks[threads[t].idx]
           out == Call(check, fault, store, now)
           list == IF ~out.raised THEN OnResult(threads[t].results, out.res)
                   ELSE OnException(threads[t].results, check, out.text)
       IN  threads' = [threads EXCEPT ![t].results = list, ![t].idx = @ + 1,
                          ![t].calls = Append(@, [spec |-> threads[t].idx,
                              raised |-> out.raised, text |-> out.text])]
    /\ UNCHANGED beside

\* run(), after the loop in thread t: the SuiteResult the call returns
ThreadReturn(t) ==
    /\ threads[t].pc = "running"
    /\ threads[t].idx > Len(checks)
    /\ threads' = [threads EXCEPT ![t].pc = "returned",
                      ![t].suite = SuiteResult(SuiteName, now, threads[t].results)]
    /\ UNCHANGED beside

\* no run() has begun: the checker can still be configured
AllIdle == \A t \in Threads : threads[t].pc = "idle"

NextConcurrent ==
    \/ \E sev \in {"error", "warning"} :
          AllIdle /\ expect_row_count("t", 1, None, sev)
    \/ AllIdle /\ expect_unique("t", <<"k">>, "error")
    \/ \E t \in Threads : ThreadBegin(t)
    \/ \E t \in Threads, fault \in Faults : ThreadCheck(t, fault)
    \/ \E t \in Threads : ThreadReturn(t)

SpecConcurrent == Init /\ [][NextConcurrent]_vars

(***************************************************************************)
(* transformers.py: clean_user_events.  A frame is a sequence of rows, a   *)
(* cell is null (None, NaN, NaT) or holds text; the text of an event type  *)
(* is a sequence of characters.                                            *)
(***************************************************************************)
Null == [isnull |-> TRUE, s |-> ""]

Str(text) == [isnull |-> FALSE, s |-> text]

\* the cells of event_type, whose text is a sequence of characters
NoChars == [isnull |-> TRUE, s |-> <<>>]

Chars(text) == [isnull |-> FALSE, s |-> text]

Event(event_id, event_type, timestamp, properties) ==
    [event_id |-> event_id, event_type |-> event_type,
     timestamp |-> timestamp, properties |-> properties]

\* the texts pandas reads as NaT rather than parses
NatStrings == {"", "NaT", "nat", "NAT", "nan", "NaN", "NAN"}

\* the texts of the model that are dates
IsoStamps == {"2024-01-01T10:00:00"}

\* pd.to_datetime of one cell: null and the NaT texts give NaT
to_datetime(cell) ==
    IF cell.isnull \/ cell.s \in NatStrings THEN Null ELSE cell

\* pd.to_datetime raises on a text it cannot parse
Unparseable(cell) ==
    ~cell.isnull /\ cell.s \notin NatStrings /\ cell.s \notin IsoStamps

\* df.drop_duplicates(subset=['event_id'], keep='first')
drop_duplicates(df) ==
    SelectSeq([i \in 1..Len(df) |->
                  [row |-> df[i],
                   first |-> \A j \in 1..(i - 1) : df[j].event_id # df[i].event_id]],
              LAMBDA x : x.first)

\* df[df['timestamp'].notna()]
notna(df) == SelectSeq(df, LAMBDA x : ~x.row.timestamp.isnull)

\* a lower() that leaves the text as it is
LowerSame(c) == c

\* str.lower() of one character
Lower(c) ==
    CASE c = "C" -> "c"
      [] c = "L" -> "l"
      [] OTHER -> c

\* Series.str.lower(): a null cell stays null
str_lower(cell) ==
    IF cell.isnull THEN cell
    ELSE [isnull |-> FALSE, s |-> [i \in 1..Len(cell.s) |-> Lower(cell.s[i])]]

\* the texts of the model that json.loads accepts
ValidJson == {"{}", "{\"a\": 1}"}

\* serialize_properties: null and text that is not JSON become "{}"
serialize_properties(x) ==
    IF x.isnull THEN Str("{}")
    ELSE IF x.s \in ValidJson THEN x
    ELSE Str("{}")

\* clean_user_events(df), for a frame that has the required columns
clean_user_events(df) ==
    IF df = <<>> THEN [status |-> "returned", frame |-> df]
    ELSE IF \E i \in 1..Len(df) : Unparseable(df[i].timestamp)
    THEN [status |-> "raised", frame |-> <<>>]
    ELSE LET typed == [i \in 1..Len(df) |->
                          [df[i] EXCEPT !.timestamp = to_datetime(@)]]
             kept == notna(drop_duplicates(typed))
         IN  [status |-> "returned",
              frame |-> [i \in 1..Len(kept) |->
                  [kept[i].row EXCEPT
                      !.event_type = str_lower(@),
                      !.properties = serialize_properties(@)]]]

\* the rows of a raw frame
MaxEvents == 2

EventIds == {"e1", "e2"}

EventTypes == {NoChars, Chars(<<"c", "l">>), Chars(<<"C", "l", "_", "1">>)}

RawStamps == {Null, Str(""), Str("2024-01-01T10:00:00"), Str("yesterday")}

RawProperties == {Null, Str("{\"a\": 1}"), Str("oops")}

RawEvents ==
    {Event(e, ty, ts, p) : e \in EventIds, ty \in EventTypes,
                           ts \in RawStamps, p \in RawProperties}

RawFrames == UNION {[1..n -> RawEvents] : n \in 0..MaxEvents}

InitClean ==
    /\ store = [t |-> <<>>, r |-> <<>>]
    /\ now = MaxNow
    /\ InitChecker
    /\ issues_found = <<>>
    /\ events_raw \in RawFrames
    /\ events_clean = NoClean

\* cleaned = clean_user_events(df)
Clean ==
    /\ events_clean.status = "none"
    /\ events_clean' = clean_user_events(events_raw)
    /\ UNCHANGED <<store, now, checks, config_calls, pc, idx, results, calls,
                   suite, configured, history, ret, phase, exit_code, threads,
                   issues_found, events_raw>>

NextClean == Clean

SpecClean == InitClean /\ [][NextClean]_vars

(***************************************************************************)
(* scripts/data_quality_check.py: check_data_quality and the __main__      *)
(* block.  The script runs its own statements on the four warehouse tables *)
(* and collects what it finds in issues_found; phase is its position.      *)
(***************************************************************************)
UserEvent(event_id, user_id, timestamp, ingested_at) ==
    [event_id |-> event_id, user_id |-> user_id, timestamp |-> timestamp,
     ingested_at |-> ingested_at]

Subscription(subscription_id, user_id, updated_at, start_date, end_date) ==
    [subscription_id |-> subscription_id, user_id |-> user_id,
     updated_at |-> updated_at, start_date |-> start_date,
     end_date |-> end_date]

Transaction(subscription_id) == [subscription_id |-> subscription_id]

UserProfile(user_id) == [user_id |-> user_id]

\* COUNT(*) FILTER (WHERE column IS NULL)
CountNull(rows, column) ==
    Cardinality({i \in 1..Len(rows) : rows[i][column] = None})

\* 1. record counts: user_events and user_profiles must not be empty
RecordCountIssues(tables) ==
    (IF Len(tables.user_events) = 0
     THEN <<"No user events found in warehouse">> ELSE <<>>)
    \o (IF Len(tables.user_profiles) = 0
        THEN <<"No user profiles found in warehouse">> ELSE <<>>)

\* 2. nulls in the required fields of user_events and subscriptions
NullValueIssues(tables) ==
    LET ids == CountNull(tables.user_events, "event_id")
        users == CountNull(tables.user_events, "user_id")
        stamps == CountNull(tables.user_events, "timestamp")
        subs == Cardinality({i \in 1..Len(tables.subscriptions) :
                    \/ tables.subscriptions[i].subscription_id = None
                    \/ tables.subscriptions[i].updated_at = None})
    IN  (IF ids > 0 \/ users > 0 \/ stamps > 0
         THEN <<"user_events has nulls: event_id=" \o IntStr(ids)
                  \o ", user_id=" \o IntStr(users)
                  \o ", timestamp=" \o IntStr(stamps)>>
         ELSE <<>>)
        \o (IF subs > 0
            THEN <<"subscriptions has " \o IntStr(subs)
                     \o " rows with null required fields">>
            ELSE <<>>)

\* LIMIT 5
ScriptDuplicatesLimit == 5

\* 3. GROUP BY event_id HAVING COUNT(*) > 1 LIMIT 5
DuplicateIssues(tables) ==
    LET rows == tables.user_events
        groups == {rows[i].event_id : i \in 1..Len(rows)}
        dups == {g \in groups :
                    Cardinality({i \in 1..Len(rows) : rows[i].event_id = g}) > 1}
        n == Min2(Cardinality(dups), ScriptDuplicatesLimit)
    IN  IF n > 0 THEN <<"Found " \o IntStr(n) \o " duplicate event_ids">>
        ELSE <<>>

\* COUNT(DISTINCT child.column) ... LEFT JOIN parent ... WHERE parent.column
\* IS NULL: the distinct values of the column, nulls not counted, that no row
\* of the parent has
CountOrphans(child, parent, column) ==
    Cardinality({child[i][column] : i \in 1..Len(child)}
                 \ ({parent[j][column] : j \in 1..Len(parent)} \cup {None}))

\* 4. referential integrity of subscriptions and transactions
ReferentialIssues(tables) ==
    LET users == CountOrphans(tables.subscriptions, tables.user_profiles,
                              "user_id")
        subs == CountOrphans(tables.transactions, tables.subscriptions,
                             "subscription_id")
    IN  (IF users > 0
         THEN <<"Found " \o IntStr(users)
                  \o " subscriptions with user_ids not in user_profiles">>
         ELSE <<>>)
        \o (IF subs > 0
            THEN <<"Found " \o IntStr(subs)
                     \o " transactions with invalid subscription_ids">>
            ELSE <<>>)

\* 5. WHERE end_date IS NOT NULL AND end_date < start_date
DateIssues(tables) ==
    LET rows == tables.subscriptions
        n == Cardinality({i \in 1..Len(rows) :
                 /\ rows[i].end_date # None
                 /\ rows[i].start_date # None
                 /\ rows[i].end_date < rows[i].start_date})
    IN  IF n > 0
        THEN <<"Found " \o IntStr(n) \o " subscriptions with end_date < start_date">>
        ELSE <<>>

\* 6. freshness: the latest ingestion is logged, a missing one is a warning
FreshnessIssues(tables) == <<>>

Sections ==
    <<"counts", "nulls", "duplicates", "references", "dates", "freshness",
      "summary">>

SectionIssues(section, tables) ==
    CASE section = "counts" -> RecordCountIssues(tables)
      [] section = "nulls" -> NullValueIssues(tables)
      [] section = "duplicates" -> DuplicateIssues(tables)
      [] section = "references" -> ReferentialIssues(tables)
      [] section = "dates" -> DateIssues(tables)
      [] section = "freshness" -> FreshnessIssues(tables)

\* except Exception: raise, then in __main__ except Exception: sys.exit(1)
ScriptExit(name) ==
    /\ phase' = name
    /\ exit_code' = ExitFailure

\* engine = create_db_engine(); issues_found = []; with engine.connect()
ScriptStart(fault) ==
    /\ phase = "idle"
    /\ IF fault # NoFault
       THEN ScriptExit("faulted") /\ UNCHANGED issues_found
       ELSE /\ phase' = Sections[1]
            /\ issues_found' = <<>>
            /\ UNCHANGED exit_code
    /\ UNCHANGED <<store, now, checks, config_calls, pc, idx, results, calls,
                   suite, configured, history, ret, threads, events_raw,
                   events_clean>>

\* one of the six sections of statements
ScriptSection(k, fault) ==
    /\ k < Len(Sections)
    /\ phase = Sections[k]
    /\ IF fault # NoFault
       THEN ScriptExit("faulted") /\ UNCHANGED issues_found
       ELSE /\ phase' = Sections[k + 1]
            /\ issues_found' = issues_found \o SectionIssues(Sections[k], store)
            /\ UNCHANGED exit_code
    /\ UNCHANGED <<store, now, checks, config_calls, pc, idx, results, calls,
                   suite, configured, history, ret, threads, events_raw,
                   events_clean>>

\* a summary that logs the issues and returns
ScriptSummaryLogOnly ==
    /\ phase = "summary"
    /\ phase' = "passed"
    /\ exit_code' = 0
    /\ UNCHANGED <<store, now, checks, config_calls, pc, idx, results, calls,
                   suite, configured, history, ret, threads, issues_found,
                   events_raw, events_clean>>

\* the summary: raise ValueError if issues were found; else the function
\* returns and __main__ calls sys.exit(0)
ScriptSummary ==
    /\ phase = "summary"
    /\ IF issues_found # <<>>
       THEN ScriptExit("failed")
       ELSE phase' = "passed" /\ exit_code' = 0
    /\ UNCHANGED <<store, now, checks, config_calls, pc, idx, results, calls,
                   suite, configured, history, ret, threads, issues_found,
                   events_raw, events_clean>>

\* the warehouses of the script
ScriptStores ==
    { [user_events |-> ue, subscriptions |-> su, transactions |-> tx,
       user_profiles |-> up] :
        ue \in { <<>>,
                 <<UserEvent(1, 1, 0, 0)>>,
                 <<UserEvent(1, 1, 0, None)>>,
                 <<UserEvent(None, 1, 0, 0)>>,
                 <<UserEvent(1, 1, 0, 0), UserEvent(1, 1, 1, 1)>> },
        su \in { <<>>,
                 <<Subscription(1, 1, 0, 0, None)>>,
                 <<Subscription(1, 1, 0, 0, 1)>>,
                 <<Subscription(1, 0, 0, 0, None)>>,
                 <<Subscription(1, 1, None, 0, None)>>,
                 <<Subscription(1, 1, 0, 1, 0)>> },
        tx \in { <<>>, <<Transaction(1)>>, <<Transaction(0)>> },
        up \in { <<>>, <<UserProfile(1)>> } }

InitScript ==
    /\ store \in ScriptStores
    /\ now = MaxNow
    /\ InitChecker
    /\ InitRest

NextScript ==
    \/ \E fault \in Faults : ScriptStart(fault)
    \/ \E k \in 1..Len(Sections), fault \in Faults : ScriptSection(k, fault)
    \/ ScriptSummary

SpecScript == InitScript /\ [][NextScript]_vars
(***************************************************************************)
(* The claims.  results[i] and calls[i] belong to checks[i]: calls[i] says *)
(* whether the i-th invocation raised and with what text.                  *)
(***************************************************************************)
Raisings == {i \in 1..Len(calls) : calls[i].raised}

Failing(list, sevs) ==
    {i \in 1..Len(list) : ~list[i].passed /\ list[i].severity \in sevs}

\* C1: the SuiteResult that run() returns holds as many results as
\* configuration calls were made, and total_checks is that number, whatever
\* the checks returned and whichever of them raised.
C1_ResultCount ==
    pc = "returned" =>
        /\ Len(suite.results) = config_calls
        /\ suite.total_checks = config_calls

\* a returned suite of two checks, one of which raised and one of which ran
C1_Witness ==
    /\ pc = "returned"
    /\ config_calls >= 2
    /\ Len(suite.results) = config_calls
    /\ Raisings # {}
    /\ Raisings # 1..Len(calls)

\* C2: run() never propagates an exception of a check: a check that raises
\* leaves a result with passed False, severity error, the error text as
\* actual and a message that the check failed to execute, and the loop goes
\* on to the specifications after it.
C2_NoPropagation ==
    /\ pc # "propagated"
    /\ \A i \in Raisings :
          /\ i <= Len(results)
          /\ ~results[i].passed
          /\ results[i].severity = "error"
          /\ results[i].actual = calls[i].text
          /\ results[i].message = "Check failed to execute: " \o calls[i].text
    /\ pc = "returned" => Len(calls) = Len(checks)

\* a returned suite whose first check lost the connection and whose second
\* check ran
C2_Witness ==
    /\ pc = "returned"
    /\ Len(calls) = 2
    /\ calls[1].raised /\ calls[1].text = ConnectionLost
    /\ ~calls[2].raised
    /\ suite.results[1].actual = ConnectionLost

\* C3: success is true exactly when failed_checks is 0, that is exactly when
\* no result failed with severity error; failures of severity warning or info
\* alone leave success true.
C3_Success ==
    pc = "returned" =>
        /\ success(suite) <=> suite.failed_checks = 0
        /\ success(suite) <=> Failing(suite.results, {"error"}) = {}
        /\ (/\ Failing(suite.results, {"warning", "info"}) # {}
            /\ Failing(suite.results, {"error"}) = {}) => success(suite)

\* a successful suite that holds a failed warning
C3_Witness ==
    /\ pc = "returned"
    /\ success(suite)
    /\ Failing(suite.results, {"warning"}) # {}

\* the results of a sequence, counted one by one
Tally(res) ==
    IF res.passed THEN "passed"
    ELSE IF res.severity = "error" THEN "failed"
    ELSE IF res.severity = "warning" THEN "warning"
    ELSE "none"

RECURSIVE TallyCount(_, _)
TallyCount(list, kind) ==
    IF list = <<>> THEN 0
    ELSE (IF Tally(list[1]) = kind THEN 1 ELSE 0) + TallyCount(Tail(list), kind)

\* C4: passed_checks counts the results that passed, failed_checks those that
\* failed with severity error, warning_checks those that failed with severity
\* warning; a failure of severity info is in neither.
C4_Counts ==
    pc = "returned" =>
        /\ suite.passed_checks = TallyCount(suite.results, "passed")
        /\ suite.failed_checks = TallyCount(suite.results, "failed")
        /\ suite.warning_checks = TallyCount(suite.results, "warning")
        /\ suite.failed_checks + suite.warning_checks
              = Cardinality(Failing(suite.results, {"error", "warning"}))

\* a suite with a failure of severity info and no failed or warning check
C4_Witness ==
    /\ pc = "returned"
    /\ Failing(suite.results, {"info"}) # {}
    /\ suite.failed_checks = 0
    /\ suite.warning_checks = 0
    /\ suite.passed_checks = 1

\* the name a check function gives its results
KindOf(func) ==
    CASE func = "check_row_count" -> "row_count"
      [] func = "check_null_values" -> "null_values"
      [] func = "check_duplicates" -> "no_duplicates"
      [] func = "check_referential_integrity" -> "referential_integrity"
      [] func = "check_value_range" -> "value_range"
      [] func = "check_freshness" -> "freshness"

\* C5: the i-th result is the outcome of the i-th registered specification,
\* whether it passed, failed or raised.
C5_Order ==
    \A i \in 1..Len(results) :
        /\ i <= Len(checks)
        /\ results[i].table_name = checks[i].kwargs.table_name
        /\ results[i].check_name \in {checks[i].func, KindOf(checks[i].func)}
        /\ results[i] = IF calls[i].raised
                        THEN ExecutionFailure(checks[i], calls[i].text)
                        ELSE Call(checks[i], NoFault, store, now).res

\* a returned suite of a row count that failed followed by a value range that
\* passed
C5_Witness ==
    /\ pc = "returned"
    /\ Len(suite.results) = 2
    /\ checks[1].func = "check_row_count" /\ checks[2].func = "check_value_range"
    /\ suite.results[1].check_name = "row_count" /\ ~suite.results[1].passed
    /\ suite.results[2].check_name = "value_range" /\ suite.results[2].passed

\* C6: every result of a returned suite has severity error, warning or info,
\* whatever severity the configuration calls were given.
C6_SeverityEnum ==
    \A i \in 1..Len(suite.results) : suite.results[i].severity \in Severities
\* the calls of a check function that returned a result
Returned(func) ==
    {i \in 1..Len(results) : checks[i].func = func /\ ~calls[i].raised}

\* C7: check_row_count passes exactly when count >= min_count and max_count
\* is unset or count <= max_count, a max_count of 0 included.
C7_RowCount ==
    \A i \in Returned("check_row_count") :
        LET kw == checks[i].kwargs
            count == Len(store[kw.table_name])
        IN  results[i].passed <=>
                /\ count >= kw.min_count
                /\ kw.max_count = None \/ count <= kw.max_count

\* a table with rows that meets min_count and fails for a max_count of 0
C7_Witness ==
    \E i \in Returned("check_row_count") :
        /\ checks[i].kwargs.max_count = 0
        /\ Len(store[checks[i].kwargs.table_name]) >= 1
        /\ checks[i].kwargs.min_count <= 1
        /\ ~results[i].passed

\* the null cells of the rows over the columns
NullCells(rows, columns) ==
    {c \in (1..Len(rows)) \X (1..Len(columns)) : rows[c[1]][columns[c[2]]] = None}

\* C8: on a table with rows, check_null_values passes exactly when
\* null cells / (rows * columns) * 100 <= max_null_pct, and the result has
\* the configured severity.
C8_NullRate ==
    \A i \in Returned("check_null_values") :
        LET kw == checks[i].kwargs
            rows == store[kw.table_name]
            nulls == Cardinality(NullCells(rows, kw.columns))
            cells == Len(rows) * Len(kw.columns)
        IN  Len(rows) > 0 =>
                /\ results[i].passed <=> 100 * nulls <= kw.max_null_pct.v * cells
                /\ results[i].severity = kw.severity

\* C9: on a table without rows check_null_values returns passed True with
\* severity info, whatever severity and threshold were configured.
C9_EmptyTable ==
    \A i \in Returned("check_null_values") :
        Len(store[checks[i].kwargs.table_name]) = 0 =>
            results[i].passed /\ results[i].severity = "info"

\* expect_no_nulls with severity error on an empty table: passed, info
C9_Witness ==
    \E i \in Returned("check_null_values") :
        /\ store[checks[i].kwargs.table_name] = <<>>
        /\ checks[i].kwargs.severity = "error"
        /\ checks[i].kwargs.max_null_pct = Num(0, TRUE)
        /\ results[i].passed
        /\ results[i].severity = "info"

\* rows a and b have the same value of the column tuple
SameKey(rows, columns, a, b) ==
    \A c \in 1..Len(columns) : rows[a][columns[c]] = rows[b][columns[c]]

\* C10: check_duplicates passes exactly when no two rows have the same value
\* of the column tuple; two rows that share their key are one duplicate group
\* and fail.
C10_Duplicates ==
    \A i \in Returned("check_duplicates") :
        LET kw == checks[i].kwargs
            rows == store[kw.table_name]
            shared == \E a, b \in 1..Len(rows) :
                          a < b /\ SameKey(rows, kw.columns, a, b)
        IN  /\ results[i].passed <=> ~shared
            /\ (Len(rows) = 2 /\ shared) =>
                  results[i].actual = "1 duplicate groups found"

\* two rows with the same k and different v, checked on k: one group, failed
C10_Witness ==
    \E i \in Returned("check_duplicates") :
        LET rows == store[checks[i].kwargs.table_name]
        IN  /\ Len(rows) = 2
            /\ checks[i].kwargs.columns = <<"k">>
            /\ rows[1].k = rows[2].k /\ rows[1].v # rows[2].v
            /\ ~results[i].passed
            /\ results[i].actual = "1 duplicate groups found"

\* the values of a column, NULL left out
ValuesOf(rows, column) == {rows[i][column] : i \in 1..Len(rows)} \ {None}

\* C11: the orphan count of check_referential_integrity is the number of
\* distinct non-null values of table.column without an equal value in
\* reference_table.reference_column, and the check passes exactly when it is
\* 0; null foreign keys are not counted and an empty dependent table passes.
C11_Orphans ==
    \A i \in Returned("check_referential_integrity") :
        LET kw == checks[i].kwargs
            orphans == ValuesOf(store[kw.table_name], kw.column)
                       \ ValuesOf(store[kw.reference_table], kw.reference_column)
        IN  /\ results[i].actual = IntStr(Cardinality(orphans)) \o " orphaned values"
            /\ results[i].passed <=> orphans = {}
            /\ store[kw.table_name] = <<>> => results[i].passed
            /\ results[i].severity = kw.severity

\* two dependent rows with the same key missing from the parent table, and a
\* row with a null key: one orphan, failed
C11_Witness ==
    \E i \in Returned("check_referential_integrity") :
        LET rows == store[checks[i].kwargs.table_name]
        IN  /\ Len(rows) = 3
            /\ rows[1].k = None
            /\ rows[2].k = rows[3].k /\ rows[2].k # None
            /\ store[checks[i].kwargs.reference_table] # <<>>
            /\ results[i].actual = "1 orphaned values"
            /\ ~results[i].passed

\* the checks registered by expect_values_in_set that returned a result
ReturnedInSet ==
    {i \in Returned("check_value_range") :
        "allowed_values" \in DOMAIN checks[i].kwargs}

\* the checks registered by expect_value_range that returned a result
ReturnedInRange ==
    {i \in Returned("check_value_range") :
        "allowed_values" \notin DOMAIN checks[i].kwargs}

\* C12: a check registered by expect_values_in_set passes exactly when no
\* row has a non-null value outside allowed_values, for every allowed_values,
\* the empty list included, and its result has the configured severity.
C12_ValuesInSet ==
    \A i \in ReturnedInSet :
        LET kw == checks[i].kwargs
            rows == store[kw.table_name]
            outside == {j \in 1..Len(rows) :
                           /\ rows[j][kw.column] # None
                           /\ \A a \in 1..Len(kw.allowed_values) :
                                 kw.allowed_values[a] # rows[j][kw.column]}
        IN  /\ results[i].passed <=> outside = {}
            /\ results[i].severity = kw.severity

\* C13: with a minimum or a maximum given, 0 included, check_value_range
\* passes exactly when no row has a value below the minimum or above the
\* maximum; a bound left out constrains nothing and a null value is no
\* violation.
C13_Bounds ==
    \A i \in ReturnedInRange :
        LET kw == checks[i].kwargs
            rows == store[kw.table_name]
            below(x) == kw.min_value # None /\ x < kw.min_value
            above(x) == kw.max_value # None /\ x > kw.max_value
            bad == {j \in 1..Len(rows) :
                       /\ rows[j][kw.column] # None
                       /\ below(rows[j][kw.column]) \/ above(rows[j][kw.column])}
        IN  (kw.min_value # None \/ kw.max_value # None) =>
                /\ results[i].passed <=> bad = {}
                /\ results[i].severity = kw.severity

\* a maximum of 0 and no minimum, over a null value and a value above 0:
\* failed, one violation
C13_Witness ==
    \E i \in ReturnedInRange :
        LET kw == checks[i].kwargs
            rows == store[kw.table_name]
        IN  /\ kw.min_value = None /\ kw.max_value = 0
            /\ Len(rows) = 2
            /\ rows[1].v = None /\ rows[2].v > 0
            /\ ~results[i].passed
            /\ results[i].actual = "1 values out of range"

\* the checks registered by expect_value_range without a minimum and without
\* a maximum that were invoked
Unconstrained ==
    {i \in 1..Len(results) :
        /\ checks[i].func = "check_value_range"
        /\ "allowed_values" \notin DOMAIN checks[i].kwargs
        /\ checks[i].kwargs.min_value = None
        /\ checks[i].kwargs.max_value = None}

\* C14: a value_range check without minimum, maximum and allowed set always
\* leaves a result with passed True and severity info, whatever the table
\* holds, whatever severity was configured and whether or not the store can
\* be reached.
C14_Unconstrained ==
    \A i \in Unconstrained :
        results[i].passed /\ results[i].severity = "info"

\* C15: check_freshness passes exactly when the table has a latest timestamp
\* and now minus that timestamp is at most max_age_hours; on a table without
\* rows the result is passed False at the configured severity, with a message
\* that says no data was found.
C15_Freshness ==
    \A i \in Returned("check_freshness") :
        LET kw == checks[i].kwargs
            rows == store[kw.table_name]
            stamps == ValuesOf(rows, kw.timestamp_column)
        IN  /\ results[i].passed <=>
                  /\ stamps # {}
                  /\ \A x \in stamps :
                        (\A y \in stamps : y <= x) => now - x <= kw.max_age_hours
            /\ results[i].severity = kw.severity
            /\ rows = <<>> =>
                  /\ ~results[i].passed
                  /\ results[i].actual = "No data found"
                  /\ results[i].message = "No timestamps found in table"

\* a freshness check of severity info on a table without rows: failed, info
C15_Witness ==
    \E i \in Returned("check_freshness") :
        /\ store[checks[i].kwargs.table_name] = <<>>
        /\ checks[i].kwargs.severity = "info"
        /\ ~results[i].passed
        /\ results[i].severity = "info"
        /\ results[i].message = "No timestamps found in table"


\* the check functions a specification may name
CheckFunctions ==
    {"check_row_count", "check_null_values", "check_duplicates",
     "check_referential_integrity", "check_value_range", "check_freshness"}

\* C16: every expect_* call appends exactly one specification to the end of
\* the list, leaves the specifications registered before unchanged and in
\* place, and returns the checker itself; nothing else changes the list.
C16_Append ==
    [][(checks' # checks \/ config_calls' # config_calls) =>
          /\ config_calls' = config_calls + 1
          /\ Len(checks') = Len(checks) + 1
          /\ SubSeq(checks', 1, Len(checks)) = checks
          /\ checks'[Len(checks')].func \in CheckFunctions
          /\ ret' = Self]_vars

\* a freshness expectation registered after a row count expectation, which
\* is still the first of the list
C16_Witness ==
    /\ Len(checks) = 2
    /\ config_calls = 2
    /\ checks[1].func = "check_row_count"
    /\ checks[2].func = "check_freshness"
    /\ ret = Self
    /\ pc = "idle"

\* the first call was expect_no_nulls(table, columns, severity) and the second
\* expect_null_rate(table, columns, zero, severity), and both checks returned
\* a result
ZeroPair(zero) ==
    /\ Len(results) = 2
    /\ ~calls[1].raised /\ ~calls[2].raised
    /\ configured[1][1] = "expect_no_nulls"
    /\ configured[2] = <<"expect_null_rate", configured[1][2],
                         configured[1][3], zero, configured[1][4]>>

\* C17 as stated: expect_no_nulls(table, columns, severity=s) and
\* expect_null_rate(table, columns, max_pct=0, severity=s) produce the same
\* CheckResult.
C17_SameResult ==
    ZeroPair(Num(0, FALSE)) => results[1] = results[2]

\* the fields of a CheckResult that do not quote the threshold
Verdict(res) ==
    <<res.check_name, res.table_name, res.passed, res.actual, res.severity>>

\* C17 as amended: the two results have the same check_name, table_name,
\* passed, actual and severity; expected and message are the same as well
\* when max_pct is the float 0.0, and differ in the text of the threshold
\* ("0%" for "0.0%") when it is the int 0.
C17_SameVerdict ==
    /\ ZeroPair(Num(0, FALSE)) =>
          /\ Verdict(results[1]) = Verdict(results[2])
          /\ results[1].expected = "<= 0.0%" /\ results[2].expected = "<= 0%"
    /\ ZeroPair(Num(0, TRUE)) => results[1] = results[2]

\* a table with a null: both calls fail, with different texts
C17_Witness ==
    /\ ZeroPair(Num(0, FALSE))
    /\ pc = "returned"
    /\ \E j \in 1..Len(store.t) : store.t[j].v = None
    /\ ~results[1].passed /\ ~results[2].passed
    /\ results[1].message # results[2].message

\* two SuiteResults with the same content, run_timestamp left aside
SameContent(a, b) ==
    /\ a.suite_name = b.suite_name
    /\ a.total_checks = b.total_checks
    /\ a.passed_checks = b.passed_checks
    /\ a.failed_checks = b.failed_checks
    /\ a.warning_checks = b.warning_checks
    /\ a.results = b.results

\* C18 as stated: the runs of one configuration on an unchanged store return
\* SuiteResults with the same content; only run_timestamp may differ.
C18_Idempotent ==
    \A i, j \in 1..Len(history) :
        SameContent(history[i].suite, history[j].suite)

\* the k-th check is no freshness check, or runs i and j invoked it at the
\* same time
SameClock(i, j, k) ==
    \/ checks[k].func # "check_freshness"
    \/ history[i].calls[k].at = history[j].calls[k].at

\* C18 as amended: the runs of one configuration on an unchanged, reachable
\* store return SuiteResults with the same suite name and total, and the same
\* CheckResult for every check that is no freshness check or was invoked at
\* the same time in both runs; when that is every check of the suite, the
\* content of the SuiteResults is the same.
C18_IdempotentSameClock ==
    \A i, j \in 1..Len(history) :
        /\ history[i].suite.suite_name = history[j].suite.suite_name
        /\ history[i].suite.total_checks = history[j].suite.total_checks
        /\ \A k \in 1..Len(checks) :
              SameClock(i, j, k) =>
                  history[i].suite.results[k] = history[j].suite.results[k]
        /\ (\A k \in 1..Len(checks) : SameClock(i, j, k)) =>
              SameContent(history[i].suite, history[j].suite)

\* two runs of a row count check and a freshness check, an hour apart: the
\* row count results are the same, the freshness check passed and then failed
C18_Witness ==
    /\ Len(history) = 2
    /\ Len(checks) = 2
    /\ checks[1].func = "check_row_count" /\ checks[2].func = "check_freshness"
    /\ history[1].calls[2].at # history[2].calls[2].at
    /\ history[1].suite.results[1] = history[2].suite.results[1]
    /\ history[1].suite.results[2].passed
    /\ ~history[2].suite.results[2].passed

\* the lines summary() writes before the first block and after the last
HeaderLines == 6

TrailerLines == 3

\* the marker the claim gives a result
Marker(res) ==
    IF res.passed THEN "[OK]"
    ELSE IF res.severity = "warning" THEN "[!]"
    ELSE "[X]"

\* C19: summary() writes one block for each result, in the order of the
\* results, with the pass marker for a result that passed, the warn marker
\* for one that failed with severity warning and the fail marker for any
\* other, and an outcome line that reads PASSED exactly when success is true.
C19_Summary ==
    pc = "returned" =>
        LET lines == SummaryLines(suite)
            n == Len(suite.results)
        IN  /\ Len(lines) = HeaderLines + 2 * n + TrailerLines
            /\ \A i \in 1..n :
                  LET res == suite.results[i]
                  IN  /\ lines[HeaderLines + 2 * i - 1] =
                            Marker(res) \o " " \o res.check_name \o ": "
                            \o res.table_name
                      /\ lines[HeaderLines + 2 * i] = "    " \o res.message
            /\ lines[Len(lines) - 1] = "Suite Result: PASSED" <=> success(suite)
            /\ lines[Len(lines) - 1] = "Suite Result: FAILED" <=> ~success(suite)

\* a suite of a passed check and a failed warning: a warn marker in the
\* second block, outcome PASSED
C19_Witness ==
    /\ pc = "returned"
    /\ Len(suite.results) = 2
    /\ suite.results[1].passed
    /\ ~suite.results[2].passed /\ suite.results[2].severity = "warning"
    /\ SummaryLines(suite)[HeaderLines + 1] = "[OK] row_count: t"
    /\ SummaryLines(suite)[HeaderLines + 3] = "[!] freshness: t"
    /\ SummaryLines(suite)[HeaderLines + 2 * 2 + 2] = "Suite Result: PASSED"

\* C20: the pipeline reports its successful completion only after the data
\* quality suite has run and returned success; a suite whose success is
\* false aborts the run with an error.
C20_QualityGate ==
    phase = "completed" => pc = "returned" /\ success(suite)

\* C23: within one run() the check functions are invoked one after another
\* in registration order, each specification exactly once, and the outcome
\* of an invocation is recorded before the next one starts.
C23_Sequential ==
    /\ \A i \in 1..Len(calls) : calls[i].spec = i
    /\ Len(calls) <= Len(checks)
    /\ pc = "running" => Len(calls) = idx - 1 /\ Len(results) = Len(calls)
    /\ pc = "returned" =>
          /\ Len(calls) = Len(checks)
          /\ Len(suite.results) = Len(calls)

\* a returned run of two specifications, the first of which ran and the
\* second of which raised
C23_Witness ==
    /\ pc = "returned"
    /\ Len(checks) = 2
    /\ calls[1].spec = 1 /\ ~calls[1].raised
    /\ calls[2].spec = 2 /\ calls[2].raised

\* what the invocations of a run make of the specifications it was given
OutcomeOf(h) ==
    [k \in 1..Len(h.calls) |->
        IF h.calls[k].raised
        THEN ExecutionFailure(h.checks[k], h.calls[k].text)
        ELSE Call(h.checks[k], NoFault, store, h.calls[k].at).res]

\* every run so far has executed the specifications the checker held, in
\* their order, and its results come from these alone; the list only grows
RunsStateless ==
    \A i \in 1..Len(history) :
        LET h == history[i]
        IN  /\ Len(h.calls) = Len(h.checks)
            /\ \A k \in 1..Len(h.calls) : h.calls[k].spec = k
            /\ h.suite.results = OutcomeOf(h)
            /\ h.suite.suite_name = SuiteName
            /\ Len(h.checks) <= Len(checks)
            /\ h.checks = SubSeq(checks, 1, Len(h.checks))

\* C25: no step of run() changes the specification list, and each run
\* executes the specifications registered so far, earlier ones first, with
\* results that depend on no earlier run.
C25_RunFrame ==
    [][ /\ (pc = "running" \/ pc' = "running") => checks' = checks
        /\ RunsStateless' ]_vars

\* a checker that ran one specification, was given a second one and ran both
C25_Witness ==
    /\ pc = "returned"
    /\ Len(history) = 2
    /\ Len(history[1].checks) = 1
    /\ Len(history[2].checks) = 2
    /\ history[2].calls[1].spec = 1 /\ history[2].calls[2].spec = 2
    /\ history[2].suite.results[1] # history[1].suite.results[1]

\* C26: no step of run() changes the rows of any table, whether the check
\* of the step passes, fails or raises.
C26_ReadOnly ==
    [][(pc = "running" \/ pc' = "running") => store' = store]_vars

\* a returned run over a table with rows, of a check that failed its rule and
\* a check that raised
C26_Witness ==
    /\ pc = "returned"
    /\ store.t # <<>>
    /\ Len(calls) = 2
    /\ ~calls[1].raised /\ ~suite.results[1].passed
    /\ calls[2].raised

\* C27: in a returned SuiteResult the three counts add up to at most
\* total_checks, and what is missing is the number of results that failed
\* with severity info.
C27_Shortfall ==
    pc = "returned" =>
        LET counted == suite.passed_checks + suite.failed_checks
                           + suite.warning_checks
        IN  /\ counted <= suite.total_checks
            /\ suite.total_checks - counted
                  = Cardinality(Failing(suite.results, {"info"}))

\* the block of the i-th result in the report carries the fail marker
CarriesFail(s, i) ==
    SummaryLines(s)[HeaderLines + 2 * i - 1] =
        "[X] " \o s.results[i].check_name \o ": " \o s.results[i].table_name

Outcome(s) == SummaryLines(s)[Len(SummaryLines(s)) - 1]

\* C28: a report that ends with the outcome PASSED holds no block with the
\* fail marker.
C28_PassedNoFail ==
    pc = "returned" =>
        (Outcome(suite) = "Suite Result: PASSED" =>
            \A i \in 1..Len(suite.results) : ~CarriesFail(suite, i))

\* C28, amended: the report ends with PASSED exactly when no result failed
\* with severity error; the fail marker is on the blocks of the results that
\* failed with a severity other than warning, so the fail markers of a
\* PASSED report are those of failures whose severity is not error.
C28_PassedNoErrorFail ==
    pc = "returned" =>
        /\ Outcome(suite) = "Suite Result: PASSED"
              <=> Failing(suite.results, {"error"}) = {}
        /\ \A i \in 1..Len(suite.results) :
              CarriesFail(suite, i) <=>
                  /\ ~suite.results[i].passed
                  /\ suite.results[i].severity # "warning"
        /\ Outcome(suite) = "Suite Result: PASSED" =>
              \A i \in 1..Len(suite.results) :
                  CarriesFail(suite, i) => suite.results[i].severity # "error"

\* a PASSED report with a fail marker on the block of a value range check
\* that failed with severity info
C28_Witness ==
    /\ pc = "returned"
    /\ Outcome(suite) = "Suite Result: PASSED"
    /\ \E i \in 1..Len(suite.results) :
          /\ CarriesFail(suite, i)
          /\ suite.results[i].severity = "info"
          /\ suite.results[i].check_name = "value_range"

\* C29: the result of a specification carries the check name and the table
\* name that the check function gives its results, also when the check
\* raised and run() made the result.
C29_SameName ==
    \A i \in 1..Len(results) :
        /\ results[i].check_name = KindOf(checks[i].func)
        /\ results[i].table_name = checks[i].kwargs.table_name

\* the connections held after a sequence of connection events
RECURSIVE Held(_)
Held(events) ==
    IF events = <<>> THEN 0
    ELSE Held(SubSeq(events, 1, Len(events) - 1))
            + (IF events[Len(events)] = "connect" THEN 1 ELSE -1)

\* the connection events of the invocations so far, in their order
RECURSIVE EventsOf(_)
EventsOf(log) ==
    IF log = <<>> THEN <<>>
    ELSE EventsOf(SubSeq(log, 1, Len(log) - 1)) \o log[Len(log)].conn

\* C24: every invocation of a check leaves no connection held, whether it
\* returned, returned early or raised; at no point of run() is more than one
\* connection held, and none is once run() has returned.
C24_Released ==
    /\ \A i \in 1..Len(calls) : Held(calls[i].conn) = 0
    /\ \A n \in 0..Len(EventsOf(calls)) :
          Held(SubSeq(EventsOf(calls), 1, n)) \in {0, 1}
    /\ pc = "returned" => Held(EventsOf(calls)) = 0

\* a returned run whose first check raised on its statement, with the
\* connection open, and whose second check returned early for want of a
\* constraint
C24_Witness ==
    /\ pc = "returned"
    /\ Len(calls) = 2
    /\ calls[1].raised /\ calls[1].conn = <<"connect", "close">>
    /\ ~calls[2].raised /\ calls[2].conn = <<"connect", "close">>
    /\ checks[2].func = "check_value_range"
    /\ suite.results[2].severity = "info"
    /\ checks[2].kwargs.severity = "error"

\* what run() in thread t has to hold after its invocations so far
OwnResults(t) ==
    [k \in 1..Len(threads[t].calls) |->
        IF threads[t].calls[k].raised
        THEN ExecutionFailure(checks[k], threads[t].calls[k].text)
        ELSE Call(checks[k], NoFault, store, now).res]

\* C30: two interleaved calls of run() on one checker each hold the results
\* of their own invocations, one per specification in registration order,
\* and each returns a SuiteResult of exactly these.
C30_NoInterference ==
    \A t \in Threads :
        /\ \A k \in 1..Len(threads[t].calls) : threads[t].calls[k].spec = k
        /\ threads[t].results = OwnResults(t)
        /\ threads[t].pc = "returned" =>
              /\ Len(threads[t].suite.results) = Len(checks)
              /\ threads[t].suite.results = OwnResults(t)
              /\ threads[t].suite.total_checks = Len(checks)

\* the second thread has run both specifications and returned while the first
\* is between its two invocations, and the two calls have different results
\* for the first specification
C30_Witness ==
    /\ Len(checks) = 2
    /\ threads[1].pc = "running" /\ Len(threads[1].results) = 1
    /\ threads[2].pc = "returned"
    /\ threads[2].suite.results[1] # threads[1].results[1]

Uppercase == {"C", "L"}

\* no character of the cell's text is an uppercase letter
IsLower(cell) ==
    cell.isnull \/ \A i \in 1..Len(cell.s) : cell.s[i] \notin Uppercase

DistinctIds(df) ==
    \A i, j \in 1..Len(df) : i # j => df[i].event_id # df[j].event_id

\* C22: the frame clean_user_events returns has lowercase event types only,
\* and as many rows as the input when the input's event ids are pairwise
\* distinct and none of its timestamps is null.
C22_CleanEvents ==
    events_clean.status = "returned" =>
        /\ \A i \in 1..Len(events_clean.frame) :
              IsLower(events_clean.frame[i].event_type)
        /\ (/\ DistinctIds(events_raw)
            /\ \A i \in 1..Len(events_raw) : ~events_raw[i].timestamp.isnull)
           => Len(events_clean.frame) = Len(events_raw)

\* C22, amended: the row count is kept when, besides, no timestamp is a text
\* that converts to NaT, the empty string for one; a row whose timestamp is
\* null or converts to NaT is not in the output.
C22_CleanEventsConverted ==
    events_clean.status = "returned" =>
        /\ \A i \in 1..Len(events_clean.frame) :
              IsLower(events_clean.frame[i].event_type)
        /\ (/\ DistinctIds(events_raw)
            /\ \A i \in 1..Len(events_raw) :
                  /\ ~events_raw[i].timestamp.isnull
                  /\ events_raw[i].timestamp.s \notin NatStrings)
           => Len(events_clean.frame) = Len(events_raw)
        /\ events_raw # <<>> =>
              \A i \in 1..Len(events_clean.frame) :
                  /\ ~events_clean.frame[i].timestamp.isnull
                  /\ events_clean.frame[i].timestamp.s \notin NatStrings

\* two events of distinct ids with dates for timestamps, one with an
\* uppercase event type: both are returned, the event type in lowercase
C22_Witness ==
    /\ events_clean.status = "returned"
    /\ Len(events_raw) = 2
    /\ DistinctIds(events_raw)
    /\ \A i \in 1..2 : events_raw[i].timestamp.s \in IsoStamps
    /\ events_raw[1].event_type = Chars(<<"C", "l", "_", "1">>)
    /\ Len(events_clean.frame) = 2
    /\ events_clean.frame[1].event_type = Chars(<<"c", "l", "_", "1">>)

\* what the script holds a warehouse to, row by row
Sound(tables) ==
    /\ tables.user_events # <<>>
    /\ tables.user_profiles # <<>>
    /\ \A i \in 1..Len(tables.user_events) :
          /\ tables.user_events[i].event_id # None
          /\ tables.user_events[i].user_id # None
          /\ tables.user_events[i].timestamp # None
          /\ \A j \in 1..Len(tables.user_events) :
                i # j => tables.user_events[i].event_id
                            # tables.user_events[j].event_id
    /\ \A i \in 1..Len(tables.subscriptions) :
          LET s == tables.subscriptions[i]
          IN  /\ s.subscription_id # None
              /\ s.updated_at # None
              /\ s.user_id = None \/ \E j \in 1..Len(tables.user_profiles) :
                    tables.user_profiles[j].user_id = s.user_id
              /\ s.end_date = None \/ s.start_date = None
                    \/ s.end_date >= s.start_date
    /\ \A i \in 1..Len(tables.transactions) :
          LET t == tables.transactions[i]
          IN  t.subscription_id = None \/ \E j \in 1..Len(tables.subscriptions) :
                 tables.subscriptions[j].subscription_id = t.subscription_id

====
